---------------------------- MODULE Spec2Model ----------------------------
(***************************************************************************)
(* Relay protocol of APP_Calendar_Complete.                                *)
(*                                                                         *)
(*   gateway   frontend-api/server.js   enviarTransaccionTCP: signs one    *)
(*             message per call and sends it over one TLS socket           *)
(*   bootstrap setup_database.js        setupDatabase: (re)creates the     *)
(*             tables usuarios, movimientos, nonces_usados                 *)
(*   verifier  transaccion-server/serversocket.py, which is not among the  *)
(*             sources: its steps follow section 4.3 of the specification, *)
(*             over the tables the bootstrap declares                      *)
(*                                                                         *)
(* Strings are sequences of one-character strings, so that the canonical   *)
(* string nonce|timestamp|identity|command is a real concatenation.        *)
(***************************************************************************)
EXTENDS Integers, Sequences, FiniteSets, TLC

VARIABLES
  now,           \* wall clock, in seconds (Date.now()/1000, CURRENT_TIMESTAMP)
  nonces_usados, \* table nonces_usados: the Nonce Ledger
  movimientos,   \* table movimientos: the persisted movements
  conn,          \* verifier: one record per connection, each carrying one line
  setupPc,       \* setupDatabase: position of the running script
  setupAttempt,  \* setupDatabase: the retry loop's i
  setupRuns,     \* number of times the schema steps have run
  HMAC_KEY,      \* gateway: process.env.HMAC_KEY
  sends,         \* gateway: one record per call of enviarTransaccionTCP
  wire,          \* gateway: the lines written to sockets, in order
  setupWaits,    \* setupDatabase: retry delays started by the running script
  usuarios,      \* table usuarios: the rows, in order of insertion
  regs,          \* gateway: one record per request to /api/register
  isShuttingDown, \* gateway: the flag of gracefulShutdown
  shutdown,      \* gateway: the gracefulShutdown call that set the flag
  signals,       \* gateway: the signals delivered to the process, in order
  poolEnds,      \* gateway: calls of dbPool.end()
  exitCodes,     \* gateway: the codes process.exit was called with, in order
  signedTuples   \* signer: the field tuples signed so far, each with its signed string

vars == <<now, nonces_usados, movimientos, conn, setupPc,
          setupAttempt, setupRuns, HMAC_KEY, sends, wire, setupWaits,
          usuarios, regs, isShuttingDown, shutdown, signals, poolEnds, exitCodes,
          signedTuples>>

backendVars == <<nonces_usados, movimientos, conn>>
setupVars   == <<setupPc, setupAttempt, setupRuns>>
gatewayVars == <<HMAC_KEY, sends, wire>>
registerVars == <<usuarios, regs>>
shutdownVars == <<isShuttingDown, shutdown, signals, poolEnds, exitCodes>>
serverVars   == <<setupWaits, registerVars, shutdownVars, signedTuples>>

---------------------------------------------------------------------------
(* Bounds of the model *)

MaxByte      == 1   \* random bytes range over 0..MaxByte
MaxTime      == 2   \* the clock runs over 0..MaxTime
Window       == 1   \* freshness window, in clock units (300 s, scaled)
MaxConn      == 2   \* connections the verifier handles at once
MaxSetupRuns == 1   \* runs of setup_database.js
MaxSends     == 2   \* calls of enviarTransaccionTCP
MaxData      == 1   \* data events recorded per socket
MaxRegs      == 3   \* requests to /api/register
MaxSignals   == 5   \* signals delivered to the gateway's process

---------------------------------------------------------------------------
(* Text *)

HexChars == <<"0","1","2","3","4","5","6","7","8","9","a","b","c","d","e","f">>

DecChars == <<"0","1","2","3","4","5","6","7","8","9">>

\* Buffer.toString('hex'): two hex digits per byte
RECURSIVE toHex(_)
toHex(bytes) ==
  IF bytes = <<>> THEN <<>>
  ELSE <<HexChars[(Head(bytes) \div 16) + 1], HexChars[(Head(bytes) % 16) + 1]>>
       \o toHex(Tail(bytes))

\* crypto.randomBytes(lenBytes).toString('hex'), for the bytes drawn
generateNonceHex(bytes) == toHex(bytes)

\* the decimal text of a non-negative integer, as a template literal writes it
RECURSIVE Dec(_)
Dec(n) == IF n < 10 THEN <<DecChars[n + 1]>>
          ELSE Dec(n \div 10) \o <<DecChars[(n % 10) + 1]>>

\* the fields joined in another order
dataToSignSwapped(nonce, timestamp, usuario, mensaje) ==
  nonce \o <<"|">> \o usuario \o <<"|">> \o Dec(timestamp) \o <<"|">> \o mensaje

\* the fields joined without a delimiter
dataToSignNoDelimiter(nonce, timestamp, usuario, mensaje) ==
  nonce \o Dec(timestamp) \o usuario \o mensaje

\* `${nonce}|${timestamp}|${usuario}|${mensaje}`
dataToSign(nonce, timestamp, usuario, mensaje) ==
  nonce \o <<"|">> \o Dec(timestamp) \o <<"|">> \o usuario \o <<"|">> \o mensaje

\* HMAC-SHA256 in hex, taken as an ideal MAC: the tag determines key and data
hmacSha256Hex(key, data) == <<"hmac", key, data>>

\* JSON.stringify({tipo:'MSG', usuario, mensaje, nonce, timestamp, mac}):
\* the structured record carried by one line
Payload(usuario, mensaje, nonce, timestamp, mac) ==
  [tipo |-> "MSG", usuario |-> usuario, mensaje |-> mensaje, nonce |-> nonce,
   timestamp |-> timestamp, mac |-> mac]

---------------------------------------------------------------------------
(* Domains *)

SharedKey == "K"
Unset     == "<undefined>"
KeyEnv    == {Unset, "", SharedKey}

Nonces     == { generateNonceHex(<<b>>) : b \in 0..MaxByte }
Timestamps == 0..MaxTime
Usuarios   == { <<"a">>, <<"b">> }
\* 'ingreso,1,c,d' and 'gasto,2,c,d'
Ingreso1 == <<"i","n","g","r","e","s","o", ",", "1", ",", "c", ",", "d">>
Gasto2   == <<"g","a","s","t","o", ",", "2", ",", "c", ",", "d">>

Mensajes   == { Ingreso1, Gasto2 }

\* a line that does not parse as a message
Garbage == [tipo |-> "???"]

\* what a correctly keyed sender emits for the four fields
Signed(n, t, u, m) == Payload(u, m, n, t, hmacSha256Hex(SharedKey, dataToSign(n, t, u, m)))

\* the same fields under a tag made without the shared key
Forged(n, t, u, m) == Payload(u, m, n, t, hmacSha256Hex("X", dataToSign(n, t, u, m)))

\* a captured message whose command was replaced, its tag kept
Tampered(n, t, u, m) ==
  Payload(u, CHOOSE x \in Mensajes : x # m, n, t,
          hmacSha256Hex(SharedKey, dataToSign(n, t, u, m)))

\* a captured message whose timestamp was replaced by t2, its tag kept
TamperedTimestamp(n, t, u, m, t2) ==
  Payload(u, m, n, t2, hmacSha256Hex(SharedKey, dataToSign(n, t, u, m)))

\* a captured message whose nonce was replaced by n2, its tag kept
TamperedNonce(n, t, u, m, n2) ==
  Payload(u, m, n2, t, hmacSha256Hex(SharedKey, dataToSign(n, t, u, m)))

\* everything that may arrive on a connection of the verifier
InboundLines ==
  {Garbage}
  \cup { Signed(n, t, u, m)   : n \in Nonces, t \in Timestamps, u \in Usuarios, m \in {Ingreso1} }
  \cup { Signed(n, t, u, m)   : n \in Nonces, t \in {1}, u \in {<<"a">>}, m \in Mensajes }
  \cup { Forged(n, t, u, m)   : n \in Nonces, t \in Timestamps, u \in {<<"a">>}, m \in {Ingreso1} }
  \cup { Tampered(n, t, u, m) : n \in Nonces, t \in Timestamps, u \in {<<"a">>}, m \in {Ingreso1} }
  \cup { TamperedTimestamp(n, 1, <<"a">>, Ingreso1, t2) : n \in Nonces, t2 \in Timestamps \ {1} }
  \cup { TamperedNonce(p[1], 1, <<"a">>, Ingreso1, p[2]) : p \in { q \in Nonces \X Nonces : q[1] # q[2] } }

---------------------------------------------------------------------------
(* Tables (setup_database.js) *)

maxRetries == 10

\* uniqueness taken over the pair (usuario, nonce), as the index
\* idx_usuario_nonce is keyed, instead of over nonce
NonceConflictPerUser(tabla, usuario, nonce) ==
  \E r \in tabla : r.usuario = usuario /\ r.nonce = nonce

\* nonces_usados.nonce is UNIQUE: a second row with the same nonce conflicts
NonceConflict(tabla, usuario, nonce) == \E r \in tabla : r.nonce = nonce

\* INSERT INTO nonces_usados (usuario, nonce): id SERIAL, fecha CURRENT_TIMESTAMP
InsertNonce(tabla, usuario, nonce, fecha) ==
  tabla \cup {[id |-> Cardinality(tabla) + 1, usuario |-> usuario,
               nonce |-> nonce, fecha |-> fecha]}

\* the insert skipped when the user already has a movement with that command
InsertMovimientoKeyed(tabla, usuario, mensaje, nonce) ==
  IF \E r \in tabla : r.nombre_usuario_fk = usuario /\ r.mensaje = mensaje
  THEN tabla
  ELSE tabla \cup {[id |-> Cardinality(tabla) + 1, nombre_usuario_fk |-> usuario,
                    mensaje |-> mensaje, nonce |-> nonce]}

\* INSERT INTO movimientos: id SERIAL, the user, the command, the nonce
InsertMovimiento(tabla, usuario, mensaje, nonce) ==
  tabla \cup {[id |-> Cardinality(tabla) + 1, nombre_usuario_fk |-> usuario,
               mensaje |-> mensaje, nonce |-> nonce]}

\* DROP TABLE IF EXISTS ... ; CREATE TABLE ... : the table as the script leaves it
RecreatedTable(tabla) == {}

---------------------------------------------------------------------------
(* Verifier (specification, section 4.3) *)

Conns == 1..MaxConn

IdleConn == [st |-> "IDLE", line |-> Garbage, err |-> "none", reply |-> "none", ep |-> 0]

\* step 1: the line parses as a message
ParseOk(line) == line.tipo = "MSG"

\* the tag compared for the identity alone
TagMatchesIdentityOnly(line) ==
  \E n \in Nonces, t \in Timestamps, m \in Mensajes :
    line.mac = hmacSha256Hex(SharedKey, dataToSign(n, t, line.usuario, m))

\* step 2: the tag recomputed over the canonical string equals the tag carried
TagMatches(line) ==
  line.mac = hmacSha256Hex(SharedKey,
               dataToSign(line.nonce, line.timestamp, line.usuario, line.mensaje))

\* the window taken on the side of the past only
IsFreshPastOnly(timestamp, clock) == clock - timestamp <= Window

\* step 3: |now - timestamp| <= window
IsFresh(timestamp, clock) ==
  IF clock >= timestamp THEN clock - timestamp <= Window
                        ELSE timestamp - clock <= Window

\* a connection whose message needs no further step
Terminal(c) ==
  \/ c.st \in {"ACKED", "REJECTED"}
  \/ c.st = "NONCE_ACCEPTED" /\ c.err = "ApplicationError"

Rejected(c, category) == [c EXCEPT !.st = "REJECTED", !.err = category, !.reply = category]

\* a peer opens connection h and sends its one line; connections are numbered
\* in the order they are opened
Receive(h, line) ==
  /\ conn[h].st = "IDLE"
  /\ \A g \in Conns : g < h => conn[g].st # "IDLE"
  /\ conn' = [conn EXCEPT ![h] = [st |-> "RECEIVED", line |-> line, err |-> "none",
                                  reply |-> "none", ep |-> 0]]
  /\ UNCHANGED <<now, nonces_usados, movimientos, setupVars, gatewayVars, serverVars>>

\* steps 1 and 2: parse, then compare the tags
Authenticate(h) ==
  /\ conn[h].st = "RECEIVED"
  /\ conn' = [conn EXCEPT ![h] =
                IF ~ParseOk(@.line) THEN Rejected(@, "MalformedMessage")
                ELSE IF ~TagMatches(@.line) THEN Rejected(@, "AuthenticationError")
                ELSE [@ EXCEPT !.st = "AUTHENTICATED"]]
  /\ UNCHANGED <<now, nonces_usados, movimientos, setupVars, gatewayVars, serverVars>>

\* the nonce recorded before the window is looked at
CheckFreshnessAfterInsert(h) ==
  /\ conn[h].st = "AUTHENTICATED"
  /\ conn' = [conn EXCEPT ![h] =
                IF IsFresh(@.line.timestamp, now) THEN [@ EXCEPT !.st = "FRESH"]
                ELSE Rejected(@, "FreshnessError")]
  /\ nonces_usados' = IF IsFresh(conn[h].line.timestamp, now) THEN nonces_usados
                      ELSE InsertNonce(nonces_usados, conn[h].line.usuario,
                                       conn[h].line.nonce, now)
  /\ UNCHANGED <<now, movimientos, setupVars, gatewayVars, serverVars>>

\* step 3: the freshness window
CheckFreshness(h) ==
  /\ conn[h].st = "AUTHENTICATED"
  /\ conn' = [conn EXCEPT ![h] =
                IF IsFresh(@.line.timestamp, now) THEN [@ EXCEPT !.st = "FRESH"]
                ELSE Rejected(@, "FreshnessError")]
  /\ UNCHANGED <<now, nonces_usados, movimientos, setupVars, gatewayVars, serverVars>>

\* the insert written as an upsert: a conflict refreshes the row's fecha
ConsumeNonceUpsert(h) ==
  /\ conn[h].st = "FRESH"
  /\ LET m == conn[h].line IN
     IF NonceConflict(nonces_usados, m.usuario, m.nonce)
     THEN /\ conn' = [conn EXCEPT ![h] = [Rejected(@, "ReplayError") EXCEPT !.ep = setupRuns]]
          /\ nonces_usados' = { IF r.nonce = m.nonce THEN [r EXCEPT !.fecha = now] ELSE r :
                                r \in nonces_usados }
     ELSE /\ nonces_usados' = InsertNonce(nonces_usados, m.usuario, m.nonce, now)
          /\ conn' = [conn EXCEPT ![h].st = "NONCE_ACCEPTED", ![h].ep = setupRuns]
  /\ UNCHANGED <<now, movimientos, setupVars, gatewayVars, serverVars>>

\* step 4: insert the nonce under the uniqueness constraint, in one statement;
\* ep records which creation of the table the statement ran against
ConsumeNonce(h) ==
  /\ conn[h].st = "FRESH"
  /\ LET m == conn[h].line IN
     IF NonceConflict(nonces_usados, m.usuario, m.nonce)
     THEN /\ conn' = [conn EXCEPT ![h] = [Rejected(@, "ReplayError") EXCEPT !.ep = setupRuns]]
          /\ UNCHANGED nonces_usados
     ELSE /\ nonces_usados' = InsertNonce(nonces_usados, m.usuario, m.nonce, now)
          /\ conn' = [conn EXCEPT ![h].st = "NONCE_ACCEPTED", ![h].ep = setupRuns]
  /\ UNCHANGED <<now, movimientos, setupVars, gatewayVars, serverVars>>

\* step 5: persist the movement
Apply(h) ==
  /\ conn[h].st = "NONCE_ACCEPTED"
  /\ conn[h].err = "none"
  /\ LET m == conn[h].line IN
       /\ movimientos' = InsertMovimiento(movimientos, m.usuario, m.mensaje, m.nonce)
       /\ conn' = [conn EXCEPT ![h].st = "APPLIED"]
  /\ UNCHANGED <<now, nonces_usados, setupVars, gatewayVars, serverVars>>

\* the failed application taking the nonce row back with it
ApplyFailsRollback(h) ==
  /\ conn[h].st = "NONCE_ACCEPTED"
  /\ conn[h].err = "none"
  /\ conn' = [conn EXCEPT ![h].err = "ApplicationError", ![h].reply = "ApplicationError"]
  /\ nonces_usados' = { r \in nonces_usados : r.nonce # conn[h].line.nonce }
  /\ UNCHANGED <<now, movimientos, setupVars, gatewayVars, serverVars>>

\* step 5, the insert into movimientos fails (a constraint, the connection)
ApplyFails(h) ==
  /\ conn[h].st = "NONCE_ACCEPTED"
  /\ conn[h].err = "none"
  /\ conn' = [conn EXCEPT ![h].err = "ApplicationError", ![h].reply = "ApplicationError"]
  /\ UNCHANGED <<now, nonces_usados, movimientos, setupVars, gatewayVars, serverVars>>

\* step 6: the status line
Ack(h) ==
  /\ conn[h].st = "APPLIED"
  /\ conn' = [conn EXCEPT ![h].st = "ACKED", ![h].reply = "OK"]
  /\ UNCHANGED <<now, nonces_usados, movimientos, setupVars, gatewayVars, serverVars>>

\* a second passes
Tick ==
  /\ now < MaxTime
  /\ now' = now + 1
  /\ UNCHANGED <<backendVars, setupVars, gatewayVars, serverVars>>

---------------------------------------------------------------------------
(* setupDatabase (setup_database.js) *)

\* the script is started: PASO 1, then the first pass of the retry loop
SetupStart ==
  /\ setupPc \in {"idle", "failed"}
  /\ setupRuns < MaxSetupRuns
  /\ setupPc' = "connecting"
  /\ setupAttempt' = 1
  /\ setupWaits' = 0
  /\ UNCHANGED <<now, backendVars, setupRuns, gatewayVars, registerVars, shutdownVars,
                 signedTuples>>

\* client.connect() resolves: break
SetupConnectOk ==
  /\ setupPc = "connecting"
  /\ setupPc' = "schema"
  /\ UNCHANGED <<now, backendVars, setupAttempt, setupRuns, gatewayVars, serverVars>>

\* client.connect() rejects and the loop goes on at once, without the delay
SetupConnectFailNoWait ==
  /\ setupPc = "connecting"
  /\ IF setupAttempt = maxRetries
     THEN setupPc' = "failed" /\ UNCHANGED setupAttempt
     ELSE setupAttempt' = setupAttempt + 1 /\ UNCHANGED setupPc
  /\ UNCHANGED <<now, backendVars, setupRuns, gatewayVars, serverVars>>

\* client.connect() rejects: at the last attempt the error is thrown again
\* and the outer catch calls process.exit(1); else the retry delay starts
SetupConnectFail ==
  /\ setupPc = "connecting"
  /\ IF setupAttempt = maxRetries
     THEN setupPc' = "failed" /\ UNCHANGED setupWaits
     ELSE setupPc' = "waiting" /\ setupWaits' = setupWaits + 1
  /\ UNCHANGED <<now, backendVars, setupAttempt, setupRuns, gatewayVars,
                 registerVars, shutdownVars, signedTuples>>

\* the retry delay has passed: i++ and the next pass of the loop
SetupRetry ==
  /\ setupPc = "waiting"
  /\ setupPc' = "connecting"
  /\ setupAttempt' = setupAttempt + 1
  /\ UNCHANGED <<now, backendVars, setupRuns, gatewayVars, serverVars>>

\* the rows of PASO 4: const usuarios = [{ usuario: "admin", ... }]
PreRegistered == << [usuario |-> <<"a", "d", "m", "i", "n">>] >>

\* PASO 3 to the end: drop and create the tables, insert the pre-registered
\* users, then client.end()
SetupSchema ==
  /\ setupPc = "schema"
  /\ movimientos' = RecreatedTable(movimientos)
  /\ nonces_usados' = RecreatedTable(nonces_usados)
  /\ usuarios' = PreRegistered
  /\ setupRuns' = setupRuns + 1
  /\ setupPc' = "idle"
  /\ setupAttempt' = 0
  /\ UNCHANGED <<now, conn, gatewayVars, setupWaits, regs, shutdownVars, signedTuples>>

---------------------------------------------------------------------------
(* enviarTransaccionTCP (server.js) *)

Sends == 1..MaxSends

\* no TLS peer yet
NoPeer == [anchor |-> "none", name |-> "none", version |-> "none", cipher |-> "none"]

\* no response written yet
NoRes == [status |-> 0, error |-> "none", respuesta |-> <<>>]

\* req.usuario before verificarToken has set it
NoUser == [usuario |-> <<>>]

\* req.headers['authorization'] of a request that has not arrived
NoHeader == [type |-> "none", parts |-> <<>>]

\* a request not made yet: its authorization header and req.usuario, the
\* call's closure variables (nonce, timestamp, payload, socket), its promise
\* (settled, value, error, code), what its socket has seen (connects, peer,
\* cause, chunks) and the answer (res)
NoSend == [authorization |-> NoHeader, usuario |-> NoUser,
           pc |-> "new", nonce |-> <<>>, timestamp |-> 0, payload |-> Garbage,
           socket |-> "none", settled |-> "pending", value |-> <<>>, error |-> "none",
           code |-> <<>>, connects |-> 0, peer |-> NoPeer, cause |-> "none",
           chunks |-> <<>>, res |-> NoRes]

\* what one data event may deliver of the peer's bytes: a line, an empty
\* line, the first piece of a line, a line with more bytes behind it
PeerData == { <<"O", "K", "\n">>, <<"E", "R", "\n">>, <<"\n">>,
              <<"O">>, <<"O", "K", "\n", "E">> }

\* new Error(message): no code
Error(message) == [message |-> message, code |-> <<>>]

\* an error of the runtime: its code, split at '_'
SystemError(code) == [message |-> "system error", code |-> code]

\* codes of the socket's error event outside the handshake
ConnectErrors == { SystemError(<<"ECONNREFUSED">>) }
StreamErrors  == { SystemError(<<"ECONNRESET">>) }

\* tlsOptions: ca, rejectUnauthorized, minVersion, maxVersion, ciphers
tlsOptions ==
  [host |-> "python-server", ca |-> {"rootCA"}, rejectUnauthorized |-> TRUE,
   minVersion |-> "TLSv1.3", maxVersion |-> "TLSv1.3",
   ciphers |-> {"TLS_AES_256_GCM_SHA384", "TLS_CHACHA20_POLY1305_SHA256",
                "TLS_AES_128_GCM_SHA256"}]

\* the peers a connection may reach: what certificate they present, the
\* newest protocol version and the cipher they would negotiate
GoodPeer   == [anchor |-> "rootCA", name |-> "python-server", version |-> "TLSv1.3",
               cipher |-> "TLS_AES_256_GCM_SHA384"]
Peers == { GoodPeer,
           [GoodPeer EXCEPT !.anchor = "otherCA"],
           [GoodPeer EXCEPT !.name = "elsewhere"],
           [GoodPeer EXCEPT !.version = "TLSv1.2", !.cipher = "ECDHE-RSA-AES128-GCM-SHA256"],
           [GoodPeer EXCEPT !.cipher = "TLS_AES_128_CCM_SHA256"] }

TlsVersions == <<"TLSv1", "TLSv1.1", "TLSv1.2", "TLSv1.3">>

VersionRank(v) == CHOOSE i \in 1..Len(TlsVersions) : TlsVersions[i] = v

\* the handshake with the certificate check switched off
HandshakeOkUnverified(options, peer) ==
  /\ VersionRank(options.minVersion) <= VersionRank(peer.version)
  /\ VersionRank(peer.version) <= VersionRank(options.maxVersion)
  /\ peer.cipher \in options.ciphers

\* the handshake completes: the certificate chains to a pinned anchor and
\* names the host (rejectUnauthorized), the version is within
\* minVersion..maxVersion and the cipher is one of the allowed
HandshakeOk(options, peer) ==
  /\ options.rejectUnauthorized => (peer.anchor \in options.ca /\ peer.name = options.host)
  /\ VersionRank(options.minVersion) <= VersionRank(peer.version)
  /\ VersionRank(peer.version) <= VersionRank(options.maxVersion)
  /\ peer.cipher \in options.ciphers

\* the error a failed handshake is reported with
HandshakeErrors(options, peer) ==
  IF VersionRank(peer.version) < VersionRank(options.minVersion)
       \/ VersionRank(peer.version) > VersionRank(options.maxVersion)
  THEN { SystemError(<<"ERR", "SSL", "TLSV1", "ALERT", "PROTOCOL", "VERSION">>) }
  ELSE IF peer.cipher \notin options.ciphers
  THEN { SystemError(<<"ERR", "SSL", "SSLV3", "ALERT", "HANDSHAKE", "FAILURE">>) }
  ELSE IF peer.anchor \notin options.ca
  THEN { SystemError(<<"UNABLE", "TO", "VERIFY", "LEAF", "SIGNATURE">>),
         SystemError(<<"SELF", "SIGNED", "CERT", "IN", "CHAIN">>) }
  ELSE { SystemError(<<"ERR", "TLS", "CERT", "ALTNAME", "INVALID">>) }

WhiteSpace == {" ", "\n", "\r", "\t"}

\* String.prototype.trim
RECURSIVE TrimStart(_)
TrimStart(str) ==
  IF str # <<>> /\ Head(str) \in WhiteSpace THEN TrimStart(Tail(str)) ELSE str

RECURSIVE TrimEnd(_)
TrimEnd(str) ==
  IF str # <<>> /\ str[Len(str)] \in WhiteSpace
  THEN TrimEnd(SubSeq(str, 1, Len(str) - 1)) ELSE str

trim(str) == TrimEnd(TrimStart(str))

\* request body values: a string, or a value that is not one
JsString(text) == [type |-> "string", text |-> text]
JsUndefined    == [type |-> "undefined", text |-> <<>>]
JsNumber(text) == [type |-> "number", text |-> text]

\* !v for the values above: undefined and the empty string are falsy
Falsy(v) == v.type = "undefined" \/ (v.type = "string" /\ v.text = <<>>)

\* input.trim().replace(/[<>'"]/g, ''), '' for what is not a string
sanitizeInput(input) ==
  IF input.type # "string" THEN <<>>
  ELSE SelectSeq(trim(input.text), LAMBDA c : c \notin {"<", ">", "'", "\""})

\* String.prototype.indexOf for one character, 0 when absent
indexOf(str, ch) ==
  IF \E i \in 1..Len(str) : str[i] = ch
  THEN CHOOSE i \in 1..Len(str) : str[i] = ch /\ \A j \in 1..(i - 1) : str[j] # ch
  ELSE 0

\* String.prototype.split(',')
RECURSIVE split(_)
split(str) ==
  LET i == indexOf(str, ",")
  IN  IF i = 0 THEN <<str>>
      ELSE <<SubSeq(str, 1, i - 1)>> \o split(SubSeq(str, i + 1, Len(str)))

Digits == {"0", "1", "2", "3", "4", "5", "6", "7", "8", "9"}

\* the longest prefix of decimal digits
RECURSIVE DigitsPrefix(_)
DigitsPrefix(str) ==
  IF str # <<>> /\ Head(str) \in Digits THEN <<Head(str)>> \o DigitsPrefix(Tail(str))
  ELSE <<>>

\* parseFloat for texts without an exponent: leading white space, a sign,
\* digits, a point, digits; what follows the number is ignored; NaN when
\* there is no digit. The value is kept as its sign and whether it is zero.
parseFloat(str) ==
  LET t      == TrimStart(str)
      signed == t # <<>> /\ Head(t) \in {"-", "+"}
      body   == IF signed THEN Tail(t) ELSE t
      ip     == DigitsPrefix(body)
      rest   == SubSeq(body, Len(ip) + 1, Len(body))
      fp     == IF rest # <<>> /\ Head(rest) = "." THEN DigitsPrefix(Tail(rest)) ELSE <<>>
  IN  [nan  |-> ip = <<>> /\ fp = <<>>,
       neg  |-> signed /\ Head(t) = "-",
       zero |-> \A i \in 1..Len(ip \o fp) : (ip \o fp)[i] = "0"]

isNaN(x) == x.nan

\* x <= 0 for a parsed number (false for NaN)
AtMostZero(x) == ~x.nan /\ (x.neg \/ x.zero)

\* the key test passing every key but undefined
KeyMissingUndefinedOnly(key) == key = Unset

\* !HMAC_KEY: undefined and the empty string are falsy
KeyMissing(key) == key \in {Unset, ""}

\* resolve / reject: only the first call settles the promise
resolve(c, value) ==
  IF c.settled = "pending" THEN [c EXCEPT !.settled = "resolved", !.value = value] ELSE c

\* a reject that settles again
rejectOverwrites(c, err) ==
  [c EXCEPT !.settled = "rejected", !.error = err.message, !.code = err.code]

reject(c, err) ==
  IF c.settled = "pending"
  THEN [c EXCEPT !.settled = "rejected", !.error = err.message, !.code = err.code]
  ELSE c

\* the kind of event that settles the promise, kept beside it
Caused(c, cause) == IF c.settled = "pending" THEN [c EXCEPT !.cause = cause] ELSE c

\* the executor of the promise, up to the registration of the handlers;
\* caOk: readFileSync of rootCA.pem returns (a throw rejects the promise)
enviarTransaccionTCP(s, usuario, mensaje, bytes, caOk) ==
  /\ sends[s].pc = "new"
  /\ IF KeyMissing(HMAC_KEY)
     THEN sends' = [sends EXCEPT ![s] =
                      reject(Caused([@ EXCEPT !.pc = "called"], "config"),
                             Error("HMAC_KEY no configurada"))]
     ELSE LET nonce     == generateNonceHex(bytes)
              timestamp == now
              mac       == hmacSha256Hex(HMAC_KEY, dataToSign(nonce, timestamp, usuario, mensaje))
              payload   == Payload(usuario, mensaje, nonce, timestamp, mac)
              composed  == [sends[s] EXCEPT !.pc = "called", !.nonce = nonce,
                                            !.timestamp = timestamp, !.payload = payload]
          IN  sends' = [sends EXCEPT ![s] =
                          IF caOk THEN [composed EXCEPT !.socket = "connecting",
                                                        !.connects = @ + 1]
                          ELSE reject(Caused(composed, "ca"), SystemError(<<"ENOENT">>))]
  /\ UNCHANGED <<now, backendVars, setupVars, HMAC_KEY, wire, serverVars>>

\* the callback of tls.connect, run when the handshake has completed:
\* socket.write(payload + '\n')
SocketSecureConnect(s, peer) ==
  /\ sends[s].socket = "connecting"
  /\ HandshakeOk(tlsOptions, peer)
  /\ sends' = [sends EXCEPT ![s].socket = "open", ![s].peer = peer]
  /\ wire' = Append(wire, [call |-> s, line |-> sends[s].payload])
  /\ UNCHANGED <<now, backendVars, setupVars, HMAC_KEY, serverVars>>

\* the data handler settling, with its own, every call in flight, as it would
\* with resolve kept outside the call
SocketDataShared(s, data) ==
  /\ sends[s].socket \in {"open", "ended"}
  /\ sends' = [r \in Sends |->
                 IF r = s
                 THEN resolve(Caused([sends[r] EXCEPT !.socket = "ended",
                                        !.chunks = IF Len(@) < MaxData THEN Append(@, data)
                                                   ELSE @],
                                     "data"),
                              trim(data))
                 ELSE IF sends[r].pc = "called" THEN resolve(sends[r], trim(data))
                 ELSE sends[r]]
  /\ UNCHANGED <<now, backendVars, setupVars, HMAC_KEY, wire, serverVars>>

\* socket.on('data'): socket.end(), resolve(data.toString().trim())
SocketData(s, data) ==
  /\ sends[s].socket \in {"open", "ended"}
  /\ sends' = [sends EXCEPT ![s] =
                 resolve(Caused([@ EXCEPT !.socket = "ended",
                                          !.chunks = IF Len(@) < MaxData THEN Append(@, data)
                                                     ELSE @],
                                "data"),
                         trim(data))]
  /\ UNCHANGED <<now, backendVars, setupVars, HMAC_KEY, wire, serverVars>>

\* the timeout answered by connecting again
SocketTimeoutRetry(s) ==
  /\ sends[s].socket \in {"connecting", "open", "ended"}
  /\ sends' = [sends EXCEPT ![s].socket = "connecting", ![s].connects = @ + 1]
  /\ UNCHANGED <<now, backendVars, setupVars, HMAC_KEY, wire, serverVars>>

\* socket.on('timeout'): socket.destroy(), reject
SocketTimeout(s) ==
  /\ sends[s].socket \in {"connecting", "open", "ended"}
  /\ sends' = [sends EXCEPT ![s] =
                 reject(Caused([@ EXCEPT !.socket = "destroyed"], "timeout"),
                        Error("Timeout de conexion con servidor de transacciones"))]
  /\ UNCHANGED <<now, backendVars, setupVars, HMAC_KEY, wire, serverVars>>

\* socket.on('error') for an error outside the handshake: socket.end(),
\* reject(err); the stream is closed after the event
SocketError(s, err) ==
  /\ \/ sends[s].socket = "connecting" /\ err \in ConnectErrors
     \/ sends[s].socket \in {"open", "ended"} /\ err \in StreamErrors
  /\ sends' = [sends EXCEPT ![s] =
                 reject(Caused([@ EXCEPT !.socket = "closed"],
                               IF err \in ConnectErrors THEN "refused" ELSE "reset"),
                        err)]
  /\ UNCHANGED <<now, backendVars, setupVars, HMAC_KEY, wire, serverVars>>

\* socket.on('error') for a handshake that fails with the peer reached
HandshakeError(s, peer, err) ==
  /\ sends[s].socket = "connecting"
  /\ ~HandshakeOk(tlsOptions, peer)
  /\ err \in HandshakeErrors(tlsOptions, peer)
  /\ sends' = [sends EXCEPT ![s] =
                 reject(Caused([@ EXCEPT !.socket = "closed", !.peer = peer], "handshake"),
                        err)]
  /\ UNCHANGED <<now, backendVars, setupVars, HMAC_KEY, wire, serverVars>>

\* the peer ends the stream: no 'end' or 'close' handler is registered, the
\* socket closes and its timer is cleared
SocketPeerEnd(s) ==
  /\ sends[s].socket \in {"open", "ended"}
  /\ sends' = [sends EXCEPT ![s].socket = "closed"]
  /\ UNCHANGED <<now, backendVars, setupVars, HMAC_KEY, wire, serverVars>>

---------------------------------------------------------------------------
(* app.post('/api/send') (server.js) *)

MaxMensajeLen == 250

\* a text of n characters
Repeat(ch, n) == [i \in 1..n |-> ch]

\* req.body.mensaje: absent, empty, not a string, too long; commands that
\* differ from a valid one in the number of fields, the kind or the amount;
\* valid commands, one of them with characters that sanitizeInput removes
Bodies ==
  { JsUndefined, JsString(<<>>), JsNumber(<<"5">>),
    JsString(Repeat("x", MaxMensajeLen + 1)),
    JsString(<<"i", "n", "g", "r", "e", "s", "o", ",", "1", ",", "c">>), JsString(<<"i", "n", "g", "r", "e", "s", "o", ",", "1", ",", "c", ",", "d", ",", "e">>),
    JsString(<<"p", "a", "g", "o", ",", "1", ",", "c", ",", "d">>),
    JsString(<<"i", "n", "g", "r", "e", "s", "o", ",", "0", ",", "c", ",", "d">>), JsString(<<"g", "a", "s", "t", "o", ",", "-", "1", ",", "c", ",", "d">>),
    JsString(<<"i", "n", "g", "r", "e", "s", "o", ",", "x", ",", "c", ",", "d">>), JsString(<<"i", "n", "g", "r", "e", "s", "o", ",", "1", "x", ",", "c", ",", "d">>),
    JsString(Ingreso1),
    JsString(<<" ", "i", "n", "g", "r", "e", "s", "o", ",", "1", ",", "<", "c", ">", ",", "d", " ">>) }

Respuesta400(error) == [status |-> 400, error |-> error, respuesta |-> <<>>]

\* req.body: the handler reads mensaje only; a body may name a user as well
ReqBodies == { [usuario |-> u, mensaje |-> m] : u \in {<<"a">>, <<"m">>}, m \in Bodies }

\* err.code && err.code.startsWith('ERR_TLS_')
startsWithErrTls(code) == Len(code) >= 3 /\ code[1] = "ERR" /\ code[2] = "TLS"

\* res.status(...).json(...) and return
Respond(s, res) ==
  /\ sends' = [sends EXCEPT ![s].res = res]
  /\ UNCHANGED <<now, backendVars, setupVars, HMAC_KEY, wire, serverVars>>

(* verificarToken (server.js) *)

JWT_SECRET == "S"

\* a header value is kept as its pieces between spaces; a piece is a signed
\* token (payload usuario and exp, the key it was signed with) or other text
Jwt(usuario, key, exp) == [form |-> "jws", text |-> "", usuario |-> usuario, key |-> key, exp |-> exp]
Text(text)             == [form |-> "text", text |-> text, usuario |-> <<>>, key |-> "", exp |-> 0]

HeaderUndefined == [type |-> "undefined", parts |-> <<>>]
Header(parts)   == [type |-> "string", parts |-> parts]

\* exp of a token that outlives the clock's range
NeverExpires == MaxTime + 1

\* no header, an empty header, a scheme alone, a scheme and text that is no
\* token, a token behind two spaces, tokens signed with the secret or with
\* another key, expired or not
AuthHeaders ==
  { HeaderUndefined, Header(<<Text("")>>), Header(<<Text("Bearer")>>),
    Header(<<Text("Bearer"), Text("abc")>>),
    Header(<<Text("Bearer"), Text(""), Jwt(<<"a">>, JWT_SECRET, NeverExpires)>>) }
  \cup { Header(<<Text("Bearer"), Jwt(u, k, e)>>) :
            u \in Usuarios, k \in {JWT_SECRET, "X"}, e \in {0, NeverExpires} }

\* authHeader && authHeader.split(' ')[1]: undefined for no header and for
\* a header of one piece, the empty header itself when the header is empty
TokenIsNull(authHeader) ==
  \/ authHeader.type = "undefined"
  \/ authHeader # Header(<<Text("")>>) /\ Len(authHeader.parts) < 2

TokenOf(authHeader) ==
  IF authHeader = Header(<<Text("")>>) THEN Text("") ELSE authHeader.parts[2]

\* jwt.verify calls back without err: the signature is the secret's and
\* the clock has not reached exp
jwtVerify(token, secret, clock) ==
  token.form = "jws" /\ token.key = secret /\ clock < token.exp

\* the middleware: 401 without a token, 403 when the token does not verify,
\* else req.usuario = user and next()
verificarToken(s, authHeader) ==
  /\ sends[s] = NoSend
  /\ \A r \in Sends : r < s => sends[r] # NoSend
  /\ LET arrived == [sends[s] EXCEPT !.authorization = authHeader]
     IN  sends' = [sends EXCEPT ![s] =
           IF TokenIsNull(authHeader)
           THEN [arrived EXCEPT !.res = [status |-> 401, respuesta |-> <<>>, error |->
                                   "Acceso denegado. No se proporciono token."]]
           ELSE IF ~jwtVerify(TokenOf(authHeader), JWT_SECRET, now)
           THEN [arrived EXCEPT !.res = [status |-> 403, respuesta |-> <<>>, error |->
                                   "Token invalido o expirado."]]
           ELSE [arrived EXCEPT !.usuario = [usuario |-> TokenOf(authHeader).usuario]]]
  /\ UNCHANGED <<now, backendVars, setupVars, HMAC_KEY, wire, serverVars>>

\* the identity read from the request's body
usuariodelTokenFromBody(req) == req.body.usuario

\* const usuariodelToken = req.usuario.usuario
usuariodelToken(req) == req.usuario.usuario

\* the handler up to the await, run by next() of verificarToken
ApiSend(s, body, bytes, caOk) ==
  /\ sends[s].usuario # NoUser
  /\ sends[s].pc = "new"
  /\ sends[s].res = NoRes
  /\ LET mensaje == body.mensaje
         usuario == usuariodelToken([usuario |-> sends[s].usuario, body |-> body])
     IN
     IF Falsy(mensaje)
     THEN Respond(s, Respuesta400("Falta el campo mensaje"))
     ELSE IF mensaje.type # "string" \/ Len(mensaje.text) > MaxMensajeLen
     THEN Respond(s, Respuesta400("mensaje invalido o excede los 250 caracteres"))
     ELSE LET sanitizedMensaje == sanitizeInput(mensaje)
              partes           == split(sanitizedMensaje)
          IN  IF Len(partes) # 4
              THEN Respond(s, Respuesta400("Formato de mensaje invalido"))
              ELSE IF partes[1] # <<"i", "n", "g", "r", "e", "s", "o">> /\ partes[1] # <<"g", "a", "s", "t", "o">>
              THEN Respond(s, Respuesta400("El tipo debe ser ingreso o gasto"))
              ELSE IF isNaN(parseFloat(partes[2])) \/ AtMostZero(parseFloat(partes[2]))
              THEN Respond(s, Respuesta400("La cantidad debe ser un numero positivo"))
              ELSE enviarTransaccionTCP(s, usuario, sanitizedMensaje, bytes, caOk)

\* the headers of requests whose token verifies at every time of the clock
ValidHeaders == { Header(<<Text("Bearer"), Jwt(u, JWT_SECRET, NeverExpires)>>) : u \in Usuarios }

\* the handler after the await: res.json, or the catch and, through
\* next(err), the global error middleware
ApiSendResume(s) ==
  /\ sends[s].pc = "called"
  /\ sends[s].settled # "pending"
  /\ sends[s].res = NoRes
  /\ Respond(s, IF sends[s].settled = "resolved"
                THEN [status |-> 200, error |-> "none", respuesta |-> sends[s].value]
                ELSE IF startsWithErrTls(sends[s].code)
                THEN [status |-> 500, respuesta |-> <<>>, error |->
                        "Error de comunicacion segura con el servidor de transacciones."]
                ELSE IF sends[s].code = <<"ECONNREFUSED">>
                THEN [status |-> 503, respuesta |-> <<>>, error |->
                        "Servidor de transacciones no disponible. Intente mas tarde."]
                ELSE [status |-> 500, respuesta |-> <<>>, error |-> "Error interno del servidor"])

---------------------------------------------------------------------------
(* app.post('/api/register') (server.js) and the table usuarios *)

MIN_PASSWORD_LENGTH == 6
MAX_PASSWORD_LENGTH == 128

Regs == 1..MaxRegs

\* no answer written yet
NoRegRes == [status |-> 0, exito |-> "none", text |-> "none"]

\* a request not made yet: the sanitized usuario, the position of the
\* handler, the answer and the warning logged with it
NoReg == [pc |-> "new", usuario |-> <<>>, res |-> NoRegRes, log |-> "none"]

\* /^[a-zA-Z0-9_-]+$/
UsernameChars ==
  { "a", "b", "c", "d", "e", "f", "g", "h", "i", "j", "k", "l", "m", "n", "o", "p", "q",
    "r", "s", "t", "u", "v", "w", "x", "y", "z",
    "A", "B", "C", "D", "E", "F", "G", "H", "I", "J", "K", "L", "M", "N", "O", "P", "Q",
    "R", "S", "T", "U", "V", "W", "X", "Y", "Z",
    "0", "1", "2", "3", "4", "5", "6", "7", "8", "9", "_", "-" }

UsernameTest(usuario) ==
  usuario # <<>> /\ \A i \in DOMAIN usuario : usuario[i] \in UsernameChars

\* req.body of a registration: usuario absent, two new names (one of them
\* also with blanks around it), names too short, too long, with a character
\* outside the pattern, the pre-registered name; clave absent, too short,
\* of the least length, too long, not a string
RegBodies ==
  { [usuario |-> u, clave |-> c] :
      u \in { JsUndefined, JsString(<<"b", "o", "b">>), JsString(<<" ", "b", "o", "b", " ">>),
              JsString(<<"e", "v", "e">>), JsString(<<"a", "l">>), JsString(<<"b", ".", "b">>),
              JsString(Repeat("x", 33)), JsString(<<"a", "d", "m", "i", "n">>) },
      c \in { JsUndefined, JsString(Repeat("p", MIN_PASSWORD_LENGTH - 1)),
              JsString(Repeat("p", MIN_PASSWORD_LENGTH)),
              JsString(Repeat("p", MAX_PASSWORD_LENGTH + 1)), JsNumber(<<"1", "2", "3", "4", "5", "6">>) } }

RegRespuesta400(text) == [status |-> 400, exito |-> "none", text |-> text]

\* SELECT id FROM usuarios WHERE usuario = $1
SelectUsuario(tabla, usuario) == { i \in DOMAIN tabla : tabla[i].usuario = usuario }

\* a table usuarios without the UNIQUE constraint
UniqueViolationNever(tabla, usuario) == FALSE

\* usuario VARCHAR(32) NOT NULL UNIQUE: the insert fails with code 23505
UniqueViolation(tabla, usuario) == \E i \in DOMAIN tabla : tabla[i].usuario = usuario

\* the handler up to its first await: the validations, then bcrypt.hash,
\* which throws for a clave that is not a string (next(err): 500)
ApiRegister(r, body) ==
  /\ regs[r] = NoReg
  /\ \A q \in Regs : q < r => regs[q] # NoReg
  /\ LET usuario == sanitizeInput(body.usuario)
         clave   == body.clave
         answer(res) == [regs EXCEPT ![r] = [@ EXCEPT !.pc = "done", !.usuario = usuario, !.res = res]]
     IN  regs' =
           IF usuario = <<>> \/ Falsy(clave)
           THEN answer(RegRespuesta400("usuario y clave requeridos"))
           ELSE IF Len(usuario) < 3 \/ Len(usuario) > 32
           THEN answer(RegRespuesta400("usuario invalido (3-32 caracteres)"))
           ELSE IF clave.type = "string" /\ Len(clave.text) < MIN_PASSWORD_LENGTH
           THEN answer(RegRespuesta400("clave muy corta"))
           ELSE IF clave.type = "string" /\ Len(clave.text) > MAX_PASSWORD_LENGTH
           THEN answer(RegRespuesta400("clave muy larga"))
           ELSE IF ~UsernameTest(usuario)
           THEN answer(RegRespuesta400("usuario solo puede contener letras, numeros, guiones y guiones bajos"))
           ELSE IF clave.type # "string"
           THEN answer([status |-> 500, exito |-> "none", text |-> "Error interno del servidor"])
           ELSE [regs EXCEPT ![r] = [@ EXCEPT !.pc = "select", !.usuario = usuario]]
  /\ UNCHANGED <<now, backendVars, setupVars, gatewayVars, setupWaits, usuarios, shutdownVars,
                 signedTuples>>

\* the hash is there and the SELECT has run: answer for a name that is
\* found, else go on to the INSERT
RegisterSelect(r) ==
  /\ regs[r].pc = "select"
  /\ regs' = [regs EXCEPT ![r] =
       IF SelectUsuario(usuarios, regs[r].usuario) # {}
       THEN [@ EXCEPT !.pc = "done", !.log = "Intento de registro duplicado",
                      !.res = [status |-> 200, exito |-> "false", text |-> "Usuario ya registrado."]]
       ELSE [@ EXCEPT !.pc = "insert"]]
  /\ UNCHANGED <<now, backendVars, setupVars, gatewayVars, setupWaits, usuarios, shutdownVars,
                 signedTuples>>

\* INSERT INTO usuarios: the row and exito true, or the error 23505 and,
\* in the catch, exito false
RegisterInsert(r) ==
  /\ regs[r].pc = "insert"
  /\ IF UniqueViolation(usuarios, regs[r].usuario)
     THEN /\ regs' = [regs EXCEPT ![r] =
                       [@ EXCEPT !.pc = "done",
                                 !.log = "Intento de registro duplicado (race condition)",
                                 !.res = [status |-> 200, exito |-> "false",
                                          text |-> "Usuario ya registrado."]]]
          /\ UNCHANGED usuarios
     ELSE /\ usuarios' = Append(usuarios, [usuario |-> regs[r].usuario])
          /\ regs' = [regs EXCEPT ![r] =
                       [@ EXCEPT !.pc = "done",
                                 !.res = [status |-> 200, exito |-> "true",
                                          text |-> "Usuario registrado exitosamente."]]]
  /\ UNCHANGED <<now, backendVars, setupVars, gatewayVars, setupWaits, shutdownVars, signedTuples>>

---------------------------------------------------------------------------
(* gracefulShutdown (server.js) *)

Signals == {"SIGTERM", "SIGINT"}

\* no call of gracefulShutdown has passed the flag: the call's signal, its
\* position and how dbPool.end() settled
NoShutdown == [signal |-> "none", at |-> "none", pool |-> "none"]

\* const exitCode = signal === 'SIGINT' ? 130 : 0
exitCode(signal) == IF signal = "SIGINT" THEN 130 ELSE 0

\* the handler without the test of the flag
gracefulShutdownUnguarded(signal) ==
  /\ exitCodes = <<>>
  /\ Len(signals) < MaxSignals
  /\ signals' = Append(signals, signal)
  /\ isShuttingDown' = TRUE
  /\ shutdown' = [signal |-> signal, at |-> "closing", pool |-> "none"]
  /\ poolEnds' = poolEnds + 1
  /\ UNCHANGED <<now, backendVars, setupVars, gatewayVars, setupWaits, registerVars,
                 exitCodes, signedTuples>>

\* process.on(signal, () => gracefulShutdown(signal)), up to the await: a
\* call that finds the flag set returns, the first one sets it and calls
\* dbPool.end()
gracefulShutdown(signal) ==
  /\ exitCodes = <<>>
  /\ Len(signals) < MaxSignals
  /\ signals' = Append(signals, signal)
  /\ IF isShuttingDown
     THEN UNCHANGED <<isShuttingDown, shutdown, poolEnds>>
     ELSE /\ isShuttingDown' = TRUE
          /\ shutdown' = [signal |-> signal, at |-> "closing", pool |-> "none"]
          /\ poolEnds' = poolEnds + 1
  /\ UNCHANGED <<now, backendVars, setupVars, gatewayVars, setupWaits, registerVars,
                 exitCodes, signedTuples>>

\* dbPool.end() settles, resolved (ok) or rejected (the catch logs the
\* error); finally: process.exit(exitCode)
PoolEndSettles(ok) ==
  /\ shutdown.at = "closing"
  /\ exitCodes = <<>>
  /\ shutdown' = [shutdown EXCEPT !.at = "exited", !.pool = IF ok THEN "closed" ELSE "failed"]
  /\ exitCodes' = Append(exitCodes, exitCode(shutdown.signal))
  /\ UNCHANGED <<now, backendVars, setupVars, gatewayVars, setupWaits, registerVars,
                 isShuttingDown, signals, poolEnds, signedTuples>>

---------------------------------------------------------------------------
(* The system *)

Init ==
  /\ now = 0
  /\ nonces_usados = {}
  /\ movimientos = {}
  /\ conn = [h \in Conns |-> IdleConn]
  /\ setupPc = "idle"
  /\ setupAttempt = 0
  /\ setupRuns = 0
  /\ HMAC_KEY \in KeyEnv
  /\ sends = [s \in Sends |-> NoSend]
  /\ wire = <<>>
  /\ setupWaits = 0
  /\ usuarios = PreRegistered
  /\ regs = [r \in Regs |-> NoReg]
  /\ isShuttingDown = FALSE
  /\ shutdown = NoShutdown
  /\ signals = <<>>
  /\ poolEnds = 0
  /\ exitCodes = <<>>
  /\ signedTuples = {}

NextVerifier ==
  \/ \E h \in Conns, line \in InboundLines : Receive(h, line)
  \/ \E h \in Conns : Authenticate(h)
  \/ \E h \in Conns : CheckFreshness(h)
  \/ \E h \in Conns : ConsumeNonce(h)
  \/ \E h \in Conns : Apply(h)
  \/ \E h \in Conns : ApplyFails(h)
  \/ \E h \in Conns : Ack(h)

NextSetup ==
  \/ SetupStart
  \/ SetupConnectOk
  \/ SetupConnectFail
  \/ SetupRetry
  \/ SetupSchema

\* the bootstrap while the database the verifier works on is reachable:
\* client.connect() resolves at the first attempt
NextSetupUp ==
  \/ SetupStart
  \/ SetupConnectOk
  \/ SetupSchema

NextGateway ==
  \/ \E s \in Sends, authHeader \in AuthHeaders : verificarToken(s, authHeader)
  \/ \E s \in Sends, body \in ReqBodies, b \in 0..MaxByte, caOk \in BOOLEAN :
        ApiSend(s, body, <<b>>, caOk)
  \/ \E s \in Sends, peer \in Peers : SocketSecureConnect(s, peer)
  \/ \E s \in Sends, peer \in Peers :
        \E err \in HandshakeErrors(tlsOptions, peer) : HandshakeError(s, peer, err)
  \/ \E s \in Sends, data \in PeerData : SocketData(s, data)
  \/ \E s \in Sends : SocketTimeout(s)
  \/ \E s \in Sends, err \in ConnectErrors \cup StreamErrors : SocketError(s, err)
  \/ \E s \in Sends : SocketPeerEnd(s)
  \/ \E s \in Sends : ApiSendResume(s)

NextBackend == NextVerifier \/ NextSetupUp \/ Tick

InitBackend == Init /\ HMAC_KEY = SharedKey

\* the processing side: the verifier, its tables and the bootstrap that owns them
SpecBackend == InitBackend /\ [][NextBackend]_vars

\* the gateway's relay client, under every setting of the key
SpecGateway == Init /\ [][NextGateway]_vars

\* the same, with the runtime's timers: the idle timer set by
\* socket.setTimeout fires on a socket that stays connecting, open or ended,
\* and the handler resumes once its promise is settled
SpecGatewayLive ==
  /\ Init
  /\ [][NextGateway]_vars
  /\ \A s \in Sends : WF_vars(SocketTimeout(s)) /\ WF_vars(ApiSendResume(s))

\* the lines the gateway has written, as the verifier's peer delivers them
WireLines == { wire[i].line : i \in DOMAIN wire }

\* valid requests composed and written by the gateway, the lines delivered to
\* the verifier as they are, any number of times
NextRelay ==
  \/ \E s \in Sends, authHeader \in ValidHeaders : verificarToken(s, authHeader)
  \/ \E s \in Sends, b \in 0..MaxByte :
        ApiSend(s, [usuario |-> <<"m">>, mensaje |-> JsString(Ingreso1)], <<b>>, TRUE)
  \/ \E s \in Sends : SocketSecureConnect(s, GoodPeer)
  \/ \E h \in Conns, line \in WireLines : Receive(h, line)
  \/ \E h \in Conns : Authenticate(h)
  \/ \E h \in Conns : CheckFreshness(h)
  \/ \E h \in Conns : ConsumeNonce(h)
  \/ \E h \in Conns : Apply(h)
  \/ \E h \in Conns : ApplyFails(h)
  \/ \E h \in Conns : Ack(h)
  \/ NextSetupUp
  \/ Tick

\* gateway and processing side together, under the shared key
SpecRelay == InitBackend /\ [][NextRelay]_vars

NextShutdown ==
  \/ \E signal \in Signals : gracefulShutdown(signal)
  \/ \E ok \in BOOLEAN : PoolEndSettles(ok)

\* the signal handlers of the gateway's process; dbPool.end() settles
SpecShutdown ==
  /\ InitBackend
  /\ [][NextShutdown]_vars
  /\ WF_vars(\E ok \in BOOLEAN : PoolEndSettles(ok))

(* the signer of enviarTransaccionTCP over the field values it can meet *)

\* timestamps of one and of two digits
SignerTimestamps == {1, 11}

\* names /api/register accepts: 3 to 32 characters of the pattern
SignerUsuarios ==
  { u \in { <<"b", "o", "b">>, <<"1", "1", "1">>, <<"1", "1", "1", "1">>, <<"a", "-", "1">>,
            <<"a", "|", "b">>, <<"1", "1">> } :
      Len(u) >= 3 /\ Len(u) <= 32 /\ UsernameTest(u) }

\* commands that pass the validations of /api/send, with and without '|'
SignerMensajes ==
  { Ingreso1, Ingreso1 \o <<"|">>, Ingreso1 \o <<"|", "1">>,
    <<"i", "n", "g", "r", "e", "s", "o", ",", "1", ",", "c", "|", "b", "o", "b", "|", ",", "d">>,
    <<"g", "a", "s", "t", "o", ",", "1", "|", "1", ",", "|", ",", "|">> }

\* const nonce, timestamp, dataToSign of one call, kept with the fields
Compose(bytes, timestamp, usuario, mensaje) ==
  /\ Cardinality(signedTuples) < MaxSends
  /\ LET nonce == generateNonceHex(bytes)
     IN  signedTuples' = signedTuples \cup
           { [nonce |-> nonce, timestamp |-> timestamp, usuario |-> usuario, mensaje |-> mensaje,
              data |-> dataToSign(nonce, timestamp, usuario, mensaje)] }
  /\ UNCHANGED <<now, backendVars, setupVars, gatewayVars, setupWaits, registerVars, shutdownVars>>

NextSigner ==
  \E b \in 0..MaxByte, timestamp \in SignerTimestamps, usuario \in SignerUsuarios,
     mensaje \in SignerMensajes : Compose(<<b>>, timestamp, usuario, mensaje)

\* the canonical string as a function of the four fields
SpecSigner == InitBackend /\ [][NextSigner]_vars

NextRegister ==
  \/ \E r \in Regs, body \in RegBodies : ApiRegister(r, body)
  \/ \E r \in Regs : RegisterSelect(r)
  \/ \E r \in Regs : RegisterInsert(r)

\* the registration endpoint over the table the bootstrap has created
SpecRegister == InitBackend /\ [][NextRegister]_vars

\* the bootstrap with a database that may refuse connections, beside
\* registrations that fill the table usuarios
NextBootstrap ==
  \/ NextSetup
  \/ \E r \in Regs :
        ApiRegister(r, [usuario |-> JsString(<<"b", "o", "b">>),
                        clave |-> JsString(Repeat("p", MIN_PASSWORD_LENGTH))])
  \/ \E r \in Regs : RegisterSelect(r)
  \/ \E r \in Regs : RegisterInsert(r)

SpecBootstrap == InitBackend /\ [][NextBootstrap]_vars

Next ==
  \/ NextVerifier
  \/ \E h \in Conns, line \in WireLines : Receive(h, line)
  \/ NextSetup
  \/ NextGateway
  \/ NextRegister
  \/ NextShutdown
  \/ NextSigner
  \/ Tick

Spec == Init /\ [][Next]_vars

---------------------------------------------------------------------------
(* Vocabulary of the claims *)

AcceptedSt == {"NONCE_ACCEPTED", "APPLIED", "ACKED"}

\* the connection's line has taken step 4, whatever the outcome
TookNonceStep(c) == c.st \in AcceptedSt \/ (c.st = "REJECTED" /\ c.err = "ReplayError")

\* the tag equals the tag of nonce|timestamp|identity|command under the shared key
TagOverCanonical(line) ==
  /\ line.tipo = "MSG"
  /\ line.mac = <<"hmac", SharedKey,
                  line.nonce \o <<"|">> \o Dec(line.timestamp) \o <<"|">>
                  \o line.usuario \o <<"|">> \o line.mensaje>>

InWindow(timestamp, clock) ==
  /\ clock - timestamp <= Window
  /\ timestamp - clock <= Window

LedgerNonces == { r.nonce : r \in nonces_usados }

SameNonce(g, h) ==
  /\ conn[g].line.tipo = "MSG"
  /\ conn[h].line.tipo = "MSG"
  /\ conn[g].line.nonce = conn[h].line.nonce

---------------------------------------------------------------------------
(* C1: the verifier accepts a message (it reaches NONCE_ACCEPTED) exactly
   when its tag is the tag of nonce|timestamp|identity|command under the
   shared key, its timestamp is within the window of the clock when the
   freshness check runs, and its nonce has no record in the ledger when the
   nonce step runs; each check decides alone whether the message goes on. *)
C1_AcceptIff ==
  [][\A h \in Conns :
       /\ (conn[h].st = "RECEIVED" /\ conn'[h].st # "RECEIVED")
            => (conn'[h].st = "AUTHENTICATED" <=> TagOverCanonical(conn[h].line))
       /\ (conn[h].st = "AUTHENTICATED" /\ conn'[h].st # "AUTHENTICATED")
            => (conn'[h].st = "FRESH" <=> InWindow(conn[h].line.timestamp, now))
       /\ (conn[h].st = "FRESH" /\ conn'[h].st # "FRESH")
            => (conn'[h].st = "NONCE_ACCEPTED" <=> conn[h].line.nonce \notin LedgerNonces)
       /\ (conn'[h].st = "NONCE_ACCEPTED" /\ conn[h].st # "NONCE_ACCEPTED")
            => conn[h].st = "FRESH"
       /\ (conn'[h].st = "FRESH" /\ conn[h].st # "FRESH")
            => conn[h].st = "AUTHENTICATED"
       /\ (conn'[h].st = "AUTHENTICATED" /\ conn[h].st # "AUTHENTICATED")
            => conn[h].st = "RECEIVED"
    ]_vars

\* one message accepted, and one refused at each of the three checks
C1_Witness ==
  /\ \E h \in Conns : conn[h].st = "NONCE_ACCEPTED"
  /\ \E h \in Conns : conn[h].st = "REJECTED"
                      /\ conn[h].err \in {"AuthenticationError", "FreshnessError", "ReplayError"}

---------------------------------------------------------------------------
(* C2: once a message has been accepted, no other submission of the
   identical line is accepted, whenever it comes; the movement is applied
   at most once for that message. *)
C2_ReplayNeverAccepted ==
  \A g, h \in Conns :
    (g # h /\ conn[g].line = conn[h].line /\ conn[g].st \in AcceptedSt)
      => conn[h].st \notin AcceptedSt

---------------------------------------------------------------------------
(* C3: of the messages that carry one nonce and reach the nonce step
   against one creation of the ledger table, exactly one is accepted and
   every other is rejected with ReplayError, in whatever order their steps
   interleave; the ledger never holds two records for one nonce, and at
   most one movement is persisted for it. *)
C3_OneAcceptedPerNonce ==
  /\ \A r1, r2 \in nonces_usados : r1.nonce = r2.nonce => r1 = r2
  /\ \A n \in Nonces :
       LET S == { h \in Conns : /\ conn[h].line.tipo = "MSG"
                                /\ conn[h].line.nonce = n
                                /\ TookNonceStep(conn[h])
                                /\ conn[h].ep = setupRuns }
       IN /\ S # {} => Cardinality({ h \in S : conn[h].st \in AcceptedSt }) = 1
          /\ \A h \in S : conn[h].st \notin AcceptedSt
                            => (conn[h].st = "REJECTED" /\ conn[h].err = "ReplayError")
          /\ (\A h \in Conns : (conn[h].line.tipo = "MSG" /\ conn[h].line.nonce = n
                                 /\ TookNonceStep(conn[h])) => h \in S)
               => Cardinality({ r \in movimientos : r.nonce = n }) <= 1

\* the connection opened second was accepted while the first, with the same
\* nonce and a valid tag, was still on its way: the first is the replay
C3_Witness ==
  /\ SameNonce(1, 2)
  /\ TagOverCanonical(conn[1].line)
  /\ conn[1].st = "REJECTED" /\ conn[1].err = "ReplayError"
  /\ conn[2].st \in {"APPLIED", "ACKED"}
  /\ conn[1].ep = setupRuns /\ conn[2].ep = setupRuns

---------------------------------------------------------------------------
(* C4: messages with distinct nonces do not affect one another: a message
   is rejected as a replay only when another message with its own nonce was
   accepted, so valid, fresh messages with pairwise distinct nonces are all
   accepted; every applied message has exactly one movement, carrying its
   identity, command and nonce, and every movement belongs to an applied
   message: none lost, none duplicated. *)
C4_DistinctNoncesIndependent ==
  /\ \A h \in Conns :
       (conn[h].st = "REJECTED" /\ conn[h].err = "ReplayError")
         => \E g \in Conns : g # h /\ SameNonce(g, h) /\ conn[g].st \in AcceptedSt
  /\ \A h \in Conns :
       (conn[h].st \in {"APPLIED", "ACKED"}
        /\ \A g \in Conns : (SameNonce(g, h) /\ TookNonceStep(conn[g])) => conn[g].ep = setupRuns)
         => Cardinality({ r \in movimientos :
                            /\ r.nonce = conn[h].line.nonce
                            /\ r.nombre_usuario_fk = conn[h].line.usuario
                            /\ r.mensaje = conn[h].line.mensaje }) = 1
  /\ \A r \in movimientos :
       \E h \in Conns : /\ conn[h].st \in {"APPLIED", "ACKED"}
                        /\ conn[h].line.nonce = r.nonce
                        /\ conn[h].line.usuario = r.nombre_usuario_fk
                        /\ conn[h].line.mensaje = r.mensaje
  /\ Cardinality(movimientos) <= Cardinality({ h \in Conns : conn[h].st \in {"APPLIED", "ACKED"} })

\* two messages that differ only in the nonce, both acknowledged, two movements
C4_Witness ==
  /\ conn[1].st = "ACKED" /\ conn[2].st = "ACKED"
  /\ conn[1].line.nonce # conn[2].line.nonce
  /\ conn[1].line.usuario = conn[2].line.usuario
  /\ conn[1].line.timestamp = conn[2].line.timestamp
  /\ conn[1].line.mensaje = conn[2].line.mensaje
  /\ Cardinality(movimientos) = 2

---------------------------------------------------------------------------
(* C5: the ledger is append-only over every operation of the system, the
   schema bootstrap included: no step removes or changes a record. *)
C5_LedgerAppendOnly == [][nonces_usados \subseteq nonces_usados']_vars

---------------------------------------------------------------------------
(* C6: when persisting the movement fails after the nonce was inserted, the
   failing step leaves the ledger and the movements as they are, the reply
   is ApplicationError, and from then on the message stays where it is: it
   is never APPLIED or ACKED, no movement is persisted for it, and its nonce
   record stays in the ledger table it was inserted into. *)
C6_FailedApplyBurnsNonce ==
  [][\A h \in Conns :
       /\ (conn[h].err # "ApplicationError" /\ conn'[h].err = "ApplicationError")
            => /\ conn[h].st = "NONCE_ACCEPTED"
               /\ nonces_usados' = nonces_usados
               /\ movimientos' = movimientos
       /\ conn[h].err = "ApplicationError" => conn'[h] = conn[h]
       /\ conn'[h].err = "ApplicationError"
            => /\ conn'[h].st = "NONCE_ACCEPTED"
               /\ conn'[h].reply = "ApplicationError"
               /\ conn'[h].ep = setupRuns' => conn'[h].line.nonce \in { r.nonce : r \in nonces_usados' }
               /\ (\A g \in Conns : (SameNonce(g, h) /\ TookNonceStep(conn'[g]))
                                      => conn'[g].ep = setupRuns')
                    => { r \in movimientos' : r.nonce = conn'[h].line.nonce } = {}
    ]_vars

\* a message whose application failed, its nonce in the ledger, no movement
C6_Witness ==
  \E h \in Conns :
    /\ conn[h].err = "ApplicationError"
    /\ conn[h].line.nonce \in LedgerNonces
    /\ movimientos = {}
    /\ \E g \in Conns : g # h /\ SameNonce(g, h) /\ conn[g].err = "ReplayError"

---------------------------------------------------------------------------
(* C7: a step that rejects a message with MalformedMessage,
   AuthenticationError, FreshnessError or ReplayError leaves the ledger and
   the movements exactly as they were. *)
C7_RejectionChangesNothing ==
  [][\A h \in Conns :
       (conn[h].st # "REJECTED" /\ conn'[h].st = "REJECTED")
         => /\ conn'[h].err \in {"MalformedMessage", "AuthenticationError",
                                 "FreshnessError", "ReplayError"}
            /\ nonces_usados' = nonces_usados
            /\ movimientos' = movimientos
    ]_vars

\* a replay rejected while the ledger and the movements hold the first message
C7_Witness ==
  \E h \in Conns :
    /\ conn[h].st = "REJECTED" /\ conn[h].err = "ReplayError"
    /\ nonces_usados # {}
    /\ movimientos # {}

---------------------------------------------------------------------------
(* C8: a validly tagged message rejected for its timestamp leaves no record
   of its nonce: every record of the ledger was inserted for a message that
   passed the freshness check and was accepted, so a later fresh message
   with the same nonce is refused as a replay only if yet another message
   with that nonce was accepted. *)
C8_StaleMessageBurnsNothing ==
  /\ \A r \in nonces_usados :
       \E h \in Conns : /\ conn[h].st \in AcceptedSt
                        /\ conn[h].line.nonce = r.nonce
                        /\ conn[h].line.usuario = r.usuario
                        /\ TagOverCanonical(conn[h].line)
  /\ \A h, g \in Conns :
       (/\ conn[h].st = "REJECTED" /\ conn[h].err = "FreshnessError"
        /\ g # h /\ SameNonce(g, h)
        /\ conn[g].st = "REJECTED" /\ conn[g].err = "ReplayError")
         => \E k \in Conns \ {g, h} : SameNonce(k, g) /\ conn[k].st \in AcceptedSt

\* the stale message was rejected first; the fresh one with its nonce went through
C8_Witness ==
  /\ conn[1].st = "REJECTED" /\ conn[1].err = "FreshnessError"
  /\ TagOverCanonical(conn[1].line)
  /\ SameNonce(1, 2)
  /\ conn[2].st = "ACKED"

---------------------------------------------------------------------------
(* C9: a message changes state only along RECEIVED -> AUTHENTICATED ->
   FRESH -> NONCE_ACCEPTED -> APPLIED -> ACKED or into REJECTED from one of
   the first three, and the category of a rejection is that of the first
   check that fails in the order parse, tag, freshness, nonce: a check is
   reached only when the checks before it passed, and the checks after it
   play no part. *)
C9_StateMachineAndCategory ==
  [][\A h \in Conns :
       /\ conn'[h].st # conn[h].st
            => <<conn[h].st, conn'[h].st>> \in
                 { <<"IDLE", "RECEIVED">>,
                   <<"RECEIVED", "AUTHENTICATED">>, <<"RECEIVED", "REJECTED">>,
                   <<"AUTHENTICATED", "FRESH">>, <<"AUTHENTICATED", "REJECTED">>,
                   <<"FRESH", "NONCE_ACCEPTED">>, <<"FRESH", "REJECTED">>,
                   <<"NONCE_ACCEPTED", "APPLIED">>,
                   <<"APPLIED", "ACKED">> }
       /\ conn[h].st # "IDLE" => conn'[h].line = conn[h].line
       /\ (conn[h].st = "RECEIVED" /\ conn'[h].st # "RECEIVED")
            => conn'[h].err = IF conn[h].line.tipo # "MSG" THEN "MalformedMessage"
                              ELSE IF ~TagOverCanonical(conn[h].line) THEN "AuthenticationError"
                              ELSE "none"
       /\ (conn[h].st = "AUTHENTICATED" /\ conn'[h].st # "AUTHENTICATED")
            => /\ TagOverCanonical(conn[h].line)
               /\ conn'[h].err = IF InWindow(conn[h].line.timestamp, now) THEN "none"
                                 ELSE "FreshnessError"
       /\ (conn[h].st = "FRESH" /\ conn'[h].st # "FRESH")
            => /\ TagOverCanonical(conn[h].line)
               /\ conn'[h].err = IF conn[h].line.nonce \in LedgerNonces THEN "ReplayError"
                                 ELSE "none"
       /\ conn'[h].st = "REJECTED" <=> conn'[h].err \in {"MalformedMessage", "AuthenticationError",
                                                         "FreshnessError", "ReplayError"}
    ]_vars

\* a message failing the tag, the freshness and the nonce check at once (wrong
\* tag, timestamp ahead of the window, nonce consumed by the first message)
\* is rejected for the tag
C9_Witness ==
  /\ conn[1].st = "ACKED"
  /\ SameNonce(1, 2)
  /\ conn[2].line.nonce \in LedgerNonces
  /\ conn[2].line.timestamp > now + Window
  /\ ~TagOverCanonical(conn[2].line)
  /\ conn[2].st = "REJECTED" /\ conn[2].err = "AuthenticationError"

---------------------------------------------------------------------------
(* C10: with the signing key unset or empty, every call of send is rejected
   with the configuration error, generates no nonce, opens no socket and
   writes nothing; whatever the key, every line ever written carries a tag
   made under a key that is neither unset nor empty. *)
C10_NoKeyNoMessage ==
  /\ HMAC_KEY \in {Unset, ""}
       => /\ wire = <<>>
          /\ \A s \in Sends :
               sends[s].pc # "new"
                 => /\ sends[s].settled = "rejected"
                    /\ sends[s].error = "HMAC_KEY no configurada"
                    /\ sends[s].nonce = <<>>
                    /\ sends[s].socket = "none"
                    /\ sends[s].payload = Garbage
  /\ \A i \in DOMAIN wire :
       /\ wire[i].line.tipo = "MSG"
       /\ wire[i].line.mac[1] = "hmac"
       /\ wire[i].line.mac[2] \notin {Unset, ""}

\* the key is the empty string and every call has been made and has failed
C10_Witness ==
  /\ HMAC_KEY = ""
  /\ \A s \in Sends : sends[s].pc = "called" /\ sends[s].settled = "rejected"

---------------------------------------------------------------------------
\* the line carries the tag of a message of the same identity that differs
\* from it in the command, the timestamp or the nonce
IsTamperedForm(line) ==
  /\ line.tipo = "MSG"
  /\ \E n0 \in Nonces, t0 \in Timestamps, m0 \in Mensajes :
       /\ line.mac = <<"hmac", SharedKey,
                       n0 \o <<"|">> \o Dec(t0) \o <<"|">> \o line.usuario \o <<"|">> \o m0>>
       /\ <<n0, t0, m0>> # <<line.nonce, line.timestamp, line.mensaje>>

(* C12: a message carrying the tag of another message that differs from it
   in the command, the timestamp or the nonce is rejected by the step that
   compares the tags, whatever its timestamp and the ledger; that step
   leaves the ledger and the movements unchanged, and the message is never
   in a state past RECEIVED other than REJECTED. *)
C12_TamperedRejected ==
  [][\A h \in Conns :
       /\ (conn[h].st = "RECEIVED" /\ IsTamperedForm(conn[h].line) /\ conn'[h] # conn[h])
            => /\ conn'[h].st = "REJECTED"
               /\ conn'[h].err = "AuthenticationError"
               /\ nonces_usados' = nonces_usados
               /\ movimientos' = movimientos
       /\ (conn'[h].st # "IDLE" /\ IsTamperedForm(conn'[h].line))
            => conn'[h].st \in {"RECEIVED", "REJECTED"}
    ]_vars

\* one message with a replaced timestamp (fresh, nonce unseen), one with a
\* replaced nonce, both rejected, nothing in the tables
C12_Witness ==
  /\ conn[1].st = "REJECTED" /\ conn[1].err = "AuthenticationError"
  /\ conn[1].line \in { TamperedTimestamp(n, 1, <<"a">>, Ingreso1, t2) :
                          n \in Nonces, t2 \in Timestamps \ {1} }
  /\ InWindow(conn[1].line.timestamp, now)
  /\ conn[2].st = "REJECTED" /\ conn[2].err = "AuthenticationError"
  /\ conn[2].line \in { TamperedNonce(p[1], 1, <<"a">>, Ingreso1, p[2]) :
                          p \in { q \in Nonces \X Nonces : q[1] # q[2] } }
  /\ nonces_usados = {} /\ movimientos = {}

---------------------------------------------------------------------------
(* C18: once a message with some nonce has been accepted for one identity,
   no message with that nonce naming another identity is accepted: of the
   messages carrying one nonce, at most one is ever accepted, whichever
   identities they name. *)
C18_NonceGlobalAcrossIdentities ==
  \A g, h \in Conns :
    (/\ g # h
     /\ SameNonce(g, h)
     /\ conn[g].line.usuario # conn[h].line.usuario
     /\ conn[g].st \in AcceptedSt)
      => conn[h].st \notin AcceptedSt

---------------------------------------------------------------------------
\* the lines written on the socket of call s
Written(w, s) == { i \in DOMAIN w : w[i].call = s }

(* C13: a call of send opens at most one channel, and exactly one unless
   it fails before connecting (no key, no trust anchor); it writes at most
   one message on it, the message it composed, signed under the key; it
   never connects again and never writes again, whatever fails; and once
   its outcome is settled (response, timeout, error) its socket has been
   ended or destroyed. *)
C13_OneChannelOneMessage ==
  [][\A s \in Sends :
       /\ sends'[s].connects <= 1
       /\ sends'[s].connects = 1 <=> sends'[s].socket # "none"
       /\ (sends'[s].pc = "called" /\ sends'[s].cause \notin {"config", "ca"})
            => sends'[s].connects = 1
       /\ Cardinality(Written(wire', s)) <= sends'[s].connects
       /\ \A i \in Written(wire', s) :
            /\ wire'[i].line = sends'[s].payload
            /\ wire'[i].line.mac[2] = HMAC_KEY
       /\ sends'[s].settled # "pending"
            => sends'[s].socket \in {"none", "ended", "destroyed", "closed"}
       /\ sends[s].socket \notin {"none", "connecting"} => sends'[s].socket # "connecting"
       /\ sends[s].connects = 1 => sends'[s].connects = 1
       /\ sends[s].settled = "rejected" => Written(wire', s) = Written(wire, s)
       /\ Written(wire, s) # {} => Written(wire', s) = Written(wire, s)
    ]_vars

\* one call timed out after its write, one refused, one line on the wire
C13_Witness ==
  /\ sends[1].cause = "timeout" /\ sends[1].socket = "destroyed"
  /\ Written(wire, 1) # {}
  /\ sends[2].cause = "refused" /\ sends[2].socket = "closed"
  /\ Len(wire) = 1

---------------------------------------------------------------------------
(* C14: every call of send completes: once made, its promise is eventually
   resolved or rejected, whatever the peer does. *)
C14_SendCompletes ==
  \A s \in Sends : (sends[s].pc = "called") ~> (sends[s].settled # "pending")

---------------------------------------------------------------------------
\* the bytes the recorded data events delivered, in order
RECURSIVE Received(_)
Received(chunks) == IF chunks = <<>> THEN <<>> ELSE Head(chunks) \o Received(Tail(chunks))

\* the position of the first newline, 0 when there is none
FirstNewline(bytes) ==
  IF \E i \in 1..Len(bytes) : bytes[i] = "\n"
  THEN CHOOSE i \in 1..Len(bytes) : bytes[i] = "\n" /\ \A j \in 1..(i - 1) : bytes[j] # "\n"
  ELSE 0

(* C15: a call that returns a status returns the first complete line the
   peer sent: the bytes delivered hold a newline, and the value is the text
   before the first one, whatever the data events carried. *)
C15_ReturnsFirstLine ==
  \A s \in Sends :
    sends[s].settled = "resolved"
      => LET bytes == Received(sends[s].chunks)
         IN  /\ FirstNewline(bytes) > 0
             /\ sends[s].value = SubSeq(bytes, 1, FirstNewline(bytes) - 1)

---------------------------------------------------------------------------
(* C16: a send that failed by timeout, by a refused connection or by a
   failed handshake is answered differently in each of the three cases: two
   requests whose sends failed for different ones of these reasons never
   get the same answer. *)
C16_FailuresAnsweredApart ==
  \A s, r \in Sends :
    (/\ sends[s].res # NoRes /\ sends[r].res # NoRes
     /\ sends[s].cause \in {"timeout", "refused", "handshake"}
     /\ sends[r].cause \in {"timeout", "refused", "handshake"}
     /\ sends[s].cause # sends[r].cause)
      => sends[s].res # sends[r].res

---------------------------------------------------------------------------
\* the peer presents a certificate under the pinned anchor and negotiates
\* the pinned version with an allowed cipher
PinnedOk(peer) ==
  /\ peer.anchor = "rootCA"
  /\ peer.version = "TLSv1.3"
  /\ peer.cipher \in {"TLS_AES_256_GCM_SHA384", "TLS_CHACHA20_POLY1305_SHA256",
                      "TLS_AES_128_GCM_SHA256"}

(* C17: a line is written on a call's socket only by the step that
   completes the handshake, with a peer under the pinned anchor, the pinned
   version and an allowed cipher; a call whose handshake failed has written
   nothing, never writes, and is rejected. *)
C17_WriteOnlyAfterHandshake ==
  [][\A s \in Sends :
       /\ Written(wire', s) # Written(wire, s)
            => /\ sends[s].socket = "connecting"
               /\ sends'[s].socket = "open"
               /\ PinnedOk(sends'[s].peer)
       /\ Written(wire', s) # {} => PinnedOk(sends'[s].peer)
       /\ (sends'[s].peer # NoPeer /\ ~PinnedOk(sends'[s].peer))
            => sends'[s].cause = "handshake"
       /\ sends'[s].cause = "handshake"
            => /\ Written(wire', s) = {}
               /\ sends'[s].settled = "rejected"
               /\ sends'[s].socket = "closed"
    ]_vars

\* one call failed its handshake with a peer below the pinned version and
\* wrote nothing; the other completed it and wrote its line
C17_Witness ==
  /\ sends[1].cause = "handshake"
  /\ sends[1].peer.version = "TLSv1.2"
  /\ Written(wire, 1) = {}
  /\ sends[2].socket = "open"
  /\ Written(wire, 2) # {}

---------------------------------------------------------------------------
\* the text is a decimal number greater than 0: digits with at most one
\* point among them, one digit at least, not all of them 0
IsPositiveDecimal(str) ==
  /\ str # <<>>
  /\ \A i \in 1..Len(str) : str[i] \in Digits \cup {"."}
  /\ Cardinality({ i \in 1..Len(str) : str[i] = "." }) <= 1
  /\ \E i \in 1..Len(str) : str[i] \in Digits \ {"0"}

\* exactly 4 comma-separated sub-fields, an allowed kind, a positive amount
WellFormedCommand(mensaje) ==
  LET f == split(mensaje)
  IN  /\ Len(f) = 4
      /\ f[1] \in { <<"i", "n", "g", "r", "e", "s", "o">>, <<"g", "a", "s", "t", "o">> }
      /\ IsPositiveDecimal(f[2])

(* C19: every line written to the backend has kind MSG and a well-formed
   command, as has every message composed; and a request answered with a
   validation error has made no call and written nothing. *)
C19_OnlyWellFormedCommands ==
  /\ \A i \in DOMAIN wire :
       /\ wire[i].line.tipo = "MSG"
       /\ WellFormedCommand(wire[i].line.mensaje)
  /\ \A s \in Sends :
       /\ sends[s].payload # Garbage => WellFormedCommand(sends[s].payload.mensaje)
       /\ sends[s].res.status = 400
            => sends[s].pc = "new" /\ Written(wire, s) = {}

---------------------------------------------------------------------------
(* C20: calls of send share nothing: every step changes the record of one
   call at most; a line put on the wire is the payload of the call whose
   socket completed its handshake in that step, carrying that call's nonce
   and timestamp; a call that returned a value returned the trimmed data of
   the first data event of its own socket, and a call that failed failed by
   an event of its own (its key test, its read of the anchor, its socket's
   timeout or error). *)
C20_CallsShareNothing ==
  [][/\ \A s, r \in Sends : s # r => (sends'[s] = sends[s] \/ sends'[r] = sends[r])
     /\ wire' # wire
          => \E s \in Sends :
               /\ sends[s].socket = "connecting" /\ sends'[s].socket = "open"
               /\ wire' = Append(wire, [call |-> s, line |-> sends[s].payload])
               /\ sends[s].payload.nonce = sends[s].nonce
               /\ sends[s].payload.timestamp = sends[s].timestamp
     /\ \A s \in Sends :
          /\ sends'[s].settled = "resolved"
               => /\ sends'[s].chunks # <<>>
                  /\ sends'[s].value = trim(sends'[s].chunks[1])
                  /\ sends'[s].cause = "data"
          /\ sends'[s].settled = "rejected"
               => \/ sends'[s].cause \in {"config", "ca"} /\ sends'[s].socket = "none"
                  \/ sends'[s].cause = "timeout" /\ sends'[s].code = <<>>
                       /\ sends'[s].socket \in {"destroyed", "closed"}
                  \/ sends'[s].cause \in {"refused", "reset", "handshake"}
                       /\ sends'[s].code # <<>> /\ sends'[s].socket = "closed"
    ]_vars

\* two calls with the same nonce in flight at once: the second got its
\* answer first, each has the answer of its own socket
C20_Witness ==
  /\ sends[1].nonce = sends[2].nonce /\ sends[1].nonce # <<>>
  /\ sends[1].settled = "resolved" /\ sends[1].value = <<"O", "K">>
  /\ sends[2].settled = "resolved" /\ sends[2].value = <<"E", "R">>
  /\ Len(wire) = 2
  /\ wire[1].call = 2 /\ wire[2].call = 1

---------------------------------------------------------------------------
(* C11: every line the gateway writes carries the tag of its own nonce,
   timestamp, identity and command in that order under the shared key, so
   the verifier never rejects it as malformed or for its tag; and of the
   submissions of one such line at most one is accepted. *)
C11_EmittedAcceptedOnce ==
  /\ \A i \in DOMAIN wire : TagOverCanonical(wire[i].line)
  /\ \A h \in Conns :
       (conn[h].st # "IDLE" /\ conn[h].line \in WireLines)
         => conn[h].err \notin {"MalformedMessage", "AuthenticationError"}
  /\ \A g, h \in Conns :
       (/\ g # h
        /\ conn[g].st # "IDLE" /\ conn[h].st # "IDLE"
        /\ conn[g].line \in WireLines
        /\ conn[g].line = conn[h].line
        /\ conn[g].st \in AcceptedSt)
         => conn[h].st \notin AcceptedSt

---------------------------------------------------------------------------
(* C21: the identity of every composed and every written message is the
   subject of the token in the request's authorization header, and that
   token verifies (signed with the secret, not expired when the message is
   composed); a request without a token is answered 401, one whose token
   does not verify 403, and neither composes a message, opens a socket or
   writes a line. A header whose token piece is empty counts as carrying a
   token that does not verify. *)
C21_IdentityFromVerifiedToken ==
  /\ \A s \in Sends :
       LET h == sends[s].authorization
       IN  /\ sends[s].payload # Garbage
                => /\ ~TokenIsNull(h)
                   /\ TokenOf(h).form = "jws"
                   /\ TokenOf(h).key = JWT_SECRET
                   /\ sends[s].timestamp < TokenOf(h).exp
                   /\ sends[s].payload.usuario = TokenOf(h).usuario
           /\ sends[s].res.status = 401 <=> (h # NoHeader /\ TokenIsNull(h))
           /\ sends[s].res.status = 403
                <=> /\ h # NoHeader
                    /\ ~TokenIsNull(h)
                    /\ ~(/\ TokenOf(h).form = "jws"
                         /\ TokenOf(h).key = JWT_SECRET
                         /\ now < TokenOf(h).exp)
           /\ sends[s].res.status \in {401, 403}
                => /\ sends[s].pc = "new"
                   /\ sends[s].payload = Garbage
                   /\ sends[s].nonce = <<>>
                   /\ sends[s].connects = 0
                   /\ sends[s].socket = "none"
                   /\ Written(wire, s) = {}
  /\ \A i \in DOMAIN wire :
       wire[i].line.usuario = TokenOf(sends[wire[i].call].authorization).usuario

\* the first request carried an expired token signed with the secret and
\* was answered 403; the second, without a header, was answered 401
C21_Witness ==
  /\ sends[1].res.status = 403
  /\ TokenOf(sends[1].authorization).key = JWT_SECRET
  /\ TokenOf(sends[1].authorization).exp = 0
  /\ sends[2].res.status = 401
  /\ sends[2].authorization = HeaderUndefined

---------------------------------------------------------------------------
(* C22: the outcome of a call is settled once: from the step that resolves
   or rejects its promise on, no event changes the promise's state, value,
   error, code or the kind of event that settled it, and the answer written
   from it is never written again. *)
C22_SettledOnce ==
  [][\A s \in Sends :
       /\ sends[s].settled # "pending"
            => /\ sends'[s].settled = sends[s].settled
               /\ sends'[s].value = sends[s].value
               /\ sends'[s].error = sends[s].error
               /\ sends'[s].code = sends[s].code
               /\ sends'[s].cause = sends[s].cause
       /\ sends[s].res # NoRes => sends'[s].res = sends[s].res
       /\ (sends[s].settled = "pending" /\ sends'[s].settled # "pending" /\ sends[s].pc = "called")
            => sends'[s].cause \in {"data", "timeout", "refused", "reset", "handshake"}
    ]_vars

\* the first call was resolved by a data event and its socket was destroyed
\* by a timeout afterwards; the handler has answered with the value
C22_Witness ==
  /\ sends[1].settled = "resolved"
  /\ sends[1].cause = "data"
  /\ sends[1].socket = "destroyed"
  /\ sends[1].res.status = 200
  /\ sends[1].res.respuesta = sends[1].value

---------------------------------------------------------------------------
\* the requests for one name that passed the validations and the hash
RequestsFor(usuario) == { r \in Regs : regs[r].usuario = usuario /\ regs[r].pc # "new"
                                        /\ regs[r].res.status \notin {400, 500} }

RowsOf(usuario) == SelectUsuario(usuarios, usuario)

\* the names the requests ask for that the bootstrap did not register
NewNames == { regs[r].usuario : r \in Regs } \ { PreRegistered[i].usuario : i \in DOMAIN PreRegistered }

(* C23: for every new name and the requests for it that reach the existence
   check, in every interleaving of their checks and inserts: the table holds
   at most one row of the name, as many rows as requests answered with
   exito true; no such request is answered with a server error; and when all
   of them are answered, one row exists, one request has exito true and all
   others have exito false 'Usuario ya registrado.'. *)
C23_OneRegistrationPerName ==
  \A u \in NewNames :
    /\ Cardinality(RowsOf(u)) <= 1
    /\ Cardinality({ r \in RequestsFor(u) : regs[r].res.exito = "true" }) = Cardinality(RowsOf(u))
    /\ \A r \in RequestsFor(u) :
         /\ regs[r].res.status \in {0, 200}
         /\ regs[r].res.status = 200 => regs[r].pc = "done" /\ regs[r].res.exito \in {"true", "false"}
         /\ regs[r].res.exito = "false" => regs[r].res.text = "Usuario ya registrado."
    /\ (RequestsFor(u) # {} /\ \A r \in RequestsFor(u) : regs[r].pc = "done")
         => /\ Cardinality(RowsOf(u)) = 1
            /\ Cardinality({ r \in RequestsFor(u) : regs[r].res.exito = "true" }) = 1

\* three requests for one new name: one registered it, one found the row
\* in its check, one passed its check and lost at the insert
C23_Witness ==
  /\ \A r \in Regs : regs[r].usuario = <<"b", "o", "b">> /\ regs[r].pc = "done"
  /\ \E r \in Regs : regs[r].res.exito = "true"
  /\ \E r \in Regs : regs[r].log = "Intento de registro duplicado"
  /\ \E r \in Regs : regs[r].log = "Intento de registro duplicado (race condition)"

---------------------------------------------------------------------------
(* C24: the canonical string determines the four fields: two signed tuples
   with the same string nonce|timestamp|identity|command have the same
   nonce, timestamp, identity and command, for nonces of one length,
   timestamps of different lengths, registered names and commands that
   contain '|'. *)
C24_CanonicalStringInjective ==
  \A x, y \in signedTuples : x.data = y.data => x = y

\* two tuples are signed that differ in the timestamp's length and in the
\* name, one of them with '|' in its command
C24_Witness ==
  \E x, y \in signedTuples :
    /\ x.timestamp = 1 /\ y.timestamp = 11
    /\ x.usuario = <<"1", "1", "1", "1">> /\ y.usuario = <<"1", "1", "1">>
    /\ x.nonce = y.nonce
    /\ x.mensaje = y.mensaje
    /\ \E i \in DOMAIN x.mensaje : x.mensaje[i] = "|"

---------------------------------------------------------------------------
(* C25: for every sequence of signals: dbPool.end() is called at most once
   and only after a signal; process.exit is called at most once, with 130
   when the first signal was SIGINT and 0 when it was SIGTERM, whether the
   pool closed or failed to close; and once a signal has arrived the process
   exits. *)
C25_ShutdownOnce ==
  /\ [](/\ poolEnds <= 1
        /\ poolEnds = (IF signals = <<>> THEN 0 ELSE 1)
        /\ Len(exitCodes) <= 1
        /\ exitCodes # <<>>
             => /\ signals # <<>>
                /\ exitCodes[1] = (IF signals[1] = "SIGINT" THEN 130 ELSE 0)
                /\ shutdown.pool \in {"closed", "failed"})
  /\ (signals # <<>>) ~> (Len(exitCodes) = 1)

\* SIGTERM arrived first and SIGINT while the pool was closing; the pool
\* failed to close and the process exited with 0
C25_Witness ==
  /\ Len(signals) >= 2
  /\ signals[1] = "SIGTERM"
  /\ signals[2] = "SIGINT"
  /\ shutdown.pool = "failed"
  /\ exitCodes = <<0>>

---------------------------------------------------------------------------
(* C26: the bootstrap's loop makes at most maxRetries connection attempts,
   each one after the first preceded by a retry delay; the schema steps are
   entered only from an attempt that succeeded, which ends the loop, and run
   once per such entry; the script fails (process.exit(1)) from the loop
   only at the failure of attempt maxRetries, and that run drops and creates
   nothing. *)
C26_BoundedRetry ==
  /\ [](/\ setupAttempt <= maxRetries
        /\ setupPc = "connecting" => setupWaits = setupAttempt - 1
        /\ setupPc = "waiting" => setupWaits = setupAttempt /\ setupAttempt < maxRetries
        /\ setupPc = "schema" => setupWaits = setupAttempt - 1 /\ setupAttempt >= 1
        /\ setupPc = "failed" => setupAttempt = maxRetries /\ setupWaits = maxRetries - 1)
  /\ [][/\ setupPc' = "failed" /\ setupPc # "failed"
             => /\ setupPc = "connecting" /\ setupAttempt = maxRetries
                /\ UNCHANGED <<usuarios, movimientos, nonces_usados, setupRuns>>
        /\ setupPc' = "schema" /\ setupPc # "schema"
             => setupPc = "connecting" /\ setupAttempt' = setupAttempt
        /\ setupPc = "schema" /\ setupPc' # "schema"
             => setupPc' = "idle" /\ setupRuns' = setupRuns + 1
        /\ setupRuns' # setupRuns => setupPc = "schema"
        /\ setupPc # "schema"
             => /\ Len(usuarios') >= Len(usuarios)
                /\ nonces_usados \subseteq nonces_usados'
                /\ movimientos \subseteq movimientos'
        /\ setupPc' = "connecting" /\ setupPc # "connecting"
             => \/ setupPc \in {"idle", "failed"} /\ setupAttempt' = 1
                \/ setupPc = "waiting" /\ setupAttempt' = setupAttempt + 1
       ]_vars

\* all attempts of a run have failed after a user had registered: the
\* script has stopped and the user's row is still there
C26_Witness ==
  /\ setupPc = "failed"
  /\ setupAttempt = maxRetries
  /\ setupRuns = 0
  /\ \E i \in DOMAIN usuarios : usuarios[i].usuario = <<"b", "o", "b">>

=============================================================================
